---- MODULE Spec2Model ----
(***************************************************************************)
(* Model of three components of pachyderm:                                 *)
(*   the pipeline worker, src/src/server/pkg/worker/api_server.go          *)
(*     (APIServer.Process and its helpers), specification Spec;            *)
(*   the commit stores, src/src/server/pfs/server/commit_store.go          *)
(*     (memCommitStore and postgresCommitStore), specification SpecStore;  *)
(*   the object-store writer, src/unnamed/part_001 (minioWriter),          *)
(*     specification SpecWriter.                                           *)
(*                                                                         *)
(* One APIServer (one worker) serves NumCalls Process calls, which may     *)
(* arrive concurrently or one after another.  Every call is followed       *)
(* statement by statement; goroutines spawned by uploadOutput interleave.  *)
(* The locals of a call (and what is observed about it) live until its     *)
(* deferred a.Unlock() has run; after that only the request and the        *)
(* response remain.                                                        *)
(***************************************************************************)
EXTENDS Integers, Sequences, FiniteSets, TLC

\* ------------------------------------------------------------------ bounds
NumCalls == 2
Calls == 1..NumCalls

\* ------------------------------------------------------- values and inputs
NoCall == 0
NoTag == <<>>
NoData == <<"-">>
NoBytes == <<"-">>

\* req.Data: one FileInfo (its content hash) per pipeline input
Datums == { <<"h1">>, <<"h2", "h3">> }

\* paths below /pfs/out that a user binary may create
ROOT == "/pfs/out"
AllPaths == <<"d", "d/f">>
Paths == {AllPaths[i] : i \in 1..Len(AllPaths)}
IsDirPath(p) == p \in {ROOT, "d"}
ParentOf(p) == IF p = "d/f" THEN "d" ELSE ROOT
DIR == "dir"

\* what the user binary of this pipeline writes for a datum
BinaryOutput(data) == IF Len(data) = 1 THEN {"d"} ELSE {"d", "d/f"}
ParentClosed(S) == \A p \in S : ParentOf(p) = ROOT \/ ParentOf(p) \in S
BinaryWrites(data) == {W \in SUBSET BinaryOutput(data) : ParentClosed(W)}

\* a.pipelineInfo: the pipeline's name and Transform.AcceptReturnCode
Pipelines == { [name |-> "p", accept |-> {3}] }

\* results of cmd.Run(): nil, *exec.ExitError (exit code or signal), or
\* another error (the binary could not be started)
CmdResults ==
  { [kind |-> "exit", code |-> 0], [kind |-> "exit", code |-> 1],
    [kind |-> "exit", code |-> 3], [kind |-> "signal", code |-> 9],
    [kind |-> "starterr", code |-> 0] }
NoRun == [kind |-> "none", code |-> 0]

\* ------------------------------------------------------------------- state
VARIABLES
  pipelineInfo,  \* APIServer.pipelineInfo
  mutex,         \* APIServer.Mutex: the call holding it, or NoCall
  objects,       \* object store, tagged objects: tag -> bytes
  blocks,        \* object store, blocks written by PutBlock
  outDir,        \* /pfs/out: path -> DIR or file content
  pc,            \* position of each Process call
  req,           \* req.Data of each call
  ctxDone,       \* ctx of each call is cancelled
  tag,           \* local 'tag' of Process
  dlIdx,         \* loop index of downloadData
  walkTodo,      \* entries filepath.Walk has still to visit
  gstate,        \* state of the goroutine g.Go started for each entry
  gErr,          \* errgroup: first non-nil error
  lock,          \* uploadOutput's 'lock': entry whose goroutine holds it
  tree,          \* uploadOutput's 'tree' builder: path -> node
  treeBytes,     \* uploadOutput's 'treeBytes'
  resp,          \* (resp, retErr) of each call
  \* ---- observations of a call in progress
  probe,         \* outcome of the call's GetTag
  probeSaw,      \* whether the tag existed when the call's GetTag ran
  ran,           \* result of cmd.Run() in the call, NoRun if not called
  stderr,        \* the call printed "error from exec" to os.Stderr
  wrote,         \* the call has PutObject-ed its tag
  steps,         \* producing steps (download, run, upload) the call entered
  doneBefore,    \* calls that had returned when this call arrived
  \* ---- commit store (commit_store.go), one commit
  storeImpl,     \* the implementation in use: memCommitStore or postgres
  staging,       \* s.staging[key] / the commit's commit_diffs rows by num
  total,         \* s.finished[key] / the commit's commit_totals row
  filesets,      \* fileset.Storage: the references, fileset.ID = index
  cs,            \* the store call in progress: operation, position, locals
  csRet,         \* what the last store call returned
  pre,           \* staging, total and live references when the call began
  added,         \* contents added by AddFileset since staging was dropped
  lastAdd,       \* fileset of the successful AddFileset just before the call
  nops,          \* number of store calls made
  upd,           \* last UpdateFileset that set the total: fn, its x and y
  \* ---- object-store writer (part_001), one minioWriter
  wpc,           \* position of the producer (Write and Close calls)
  pipe,          \* the io.Pipe between the producer and PutObject
  upc,           \* position of the goroutine started by newMinioWriter
  putErr,        \* what client.PutObject returned
  recvd,         \* the data PutObject has read from the pipe
  closeRet,      \* what Close returned
  writeRet,      \* what the last Write returned
  nwrites        \* number of Write calls made

workerVars ==
  <<pipelineInfo, mutex, objects, blocks, outDir, pc, req, ctxDone, tag,
    dlIdx, walkTodo, gstate, gErr, lock, tree, treeBytes, resp,
    probe, probeSaw, ran, stderr, wrote, steps, doneBefore>>

storeVars ==
  <<storeImpl, staging, total, filesets, cs, csRet, pre, added, lastAdd, nops,
    upd>>
writerVars ==
  <<wpc, pipe, upc, putErr, recvd, closeRet, writeRet, nwrites>>
vars == <<workerVars, storeVars, writerVars>>

\* what an action of the worker leaves alone
aside == <<storeVars, writerVars>>
shared == <<pipelineInfo, objects, blocks, outDir>>
upl == <<walkTodo, gstate, gErr, lock, tree, treeBytes>>
hist == <<probe, probeSaw, ran, stderr, wrote, steps, doneBefore>>

NoResp == [kind |-> "none", tag |-> NoTag, err |-> "nil"]
OkResp(t) == [kind |-> "ok", tag |-> t, err |-> "nil"]
ErrResp(e) == [kind |-> "err", tag |-> NoTag, err |-> e]

EmptyFn == [x \in {} |-> x]
Put(f, k, v) == [x \in DOMAIN f \cup {k} |-> IF x = k THEN v ELSE f[x]]
Exists(t) == t \in DOMAIN objects
NoGoroutines == [p \in Paths |-> "none"]

\* ------------------------------------------------ commit store: values
\* number of store calls in a run
MaxOps == 3

NoID == 0
NoTTL == "NoTTL"
defaultTTL == "defaultTTL"

\* contents of a fileset: path of a leaf -> its version
F1 == ("p" :> "a")
F2 == ("p" :> "b") @@ ("q" :> "b")

\* the filesets the callers hold and pass to the store (fileset.ID 1, 2)
InputFilesets == <<F1, F2>>
InputIDs == 1..Len(InputFilesets)

\* fileset.Storage: a reference to some content, with its lease
NewRef(content, ttl) == [content |-> content, ttl |-> ttl, live |-> TRUE]
NewID(fs) == Len(fs) + 1
Live(fs) == {i \in DOMAIN fs : fs[i].live}

\* Clone(ctx, id, ttl): a new ID for the same content
Clone(fs, id, ttl) == Append(fs, NewRef(fs[id].content, ttl))

\* merge of two contents: the later one overrides at a leaf
Merge(a, b) ==
  [x \in DOMAIN a \cup DOMAIN b |-> IF x \in DOMAIN b THEN b[x] ELSE a[x]]

RECURSIVE ComposeContent(_)
ComposeContent(contents) ==
  IF contents = <<>> THEN EmptyFn
  ELSE Merge(ComposeContent(SubSeq(contents, 1, Len(contents) - 1)),
             contents[Len(contents)])

ContentsOf(fs, ids) == [i \in 1..Len(ids) |-> fs[ids[i]].content]

\* Compose(ctx, ids, ttl): a new ID for the ordered merge of ids
Compose(fs, ids, ttl) ==
  Append(fs, NewRef(ComposeContent(ContentsOf(fs, ids)), ttl))

\* Drop(ctx, id): the reference is released
Drop(fs, id) == [fs EXCEPT ![id].live = FALSE]

\* a storage call succeeds or fails
StorageResults == {"nil", "io"}

\* a SQL statement succeeds or fails; a single-row query with no row
\* fails with sql.ErrNoRows
ExecResults == {"nil", "db"}
GetRowResults(present) == IF present THEN {"nil", "db"} ELSE {"norows", "db"}

\* the closures passed to UpdateFileset: fn returns the ID it is given,
\* another fileset of the caller, or an error
Closures == {"keep", "replace", "fail"}
ApplyFn(fn, x) ==
  IF fn = "fail" THEN [err |-> "fn", y |-> NoID]
  ELSE IF fn = "keep" THEN [err |-> "nil", y |-> x]
  ELSE [err |-> "nil", y |-> 2]

NoStoreCall == [op |-> "none", pc |-> "idle", arg |-> NoID, ids |-> <<>>, id |-> NoID]
NoRet == [err |-> "none", kind |-> "none", id |-> NoID]
Ret(err) == [err |-> err, kind |-> "none", id |-> NoID]
RetID(kind, id) == [err |-> "nil", kind |-> kind, id |-> id]
NoUpd == [fn |-> "none", x |-> NoID, y |-> NoID, total |-> NoID]
Snapshot == [staging |-> staging, total |-> total, live |-> Live(filesets)]

\* newMemCommitStore / newPostgresCommitStore: nothing staged, no total
InitStore ==
  /\ storeImpl \in {"mem", "pg"}
  /\ staging = <<>>
  /\ total = NoID
  /\ filesets = [i \in InputIDs |-> NewRef(InputFilesets[i], defaultTTL)]
  /\ cs = NoStoreCall
  /\ csRet = NoRet
  /\ pre = Snapshot
  /\ added = <<>>
  /\ lastAdd = NoID
  /\ nops = 0
  /\ upd = NoUpd

\* ------------------------------------------- object-store writer: values
\* number of Write calls of the producer
MaxWrites == 2
Chunks == {"x", "y"}

NewPipe == [data |-> <<>>, wdone |-> FALSE, rerr |-> "nil"]

\* newMinioWriter: the pipe is open, the goroutine is in PutObject
InitWriter ==
  /\ wpc = "open"
  /\ pipe = NewPipe
  /\ upc = "putobject"
  /\ putErr = "none"
  /\ recvd = <<>>
  /\ closeRet = "none"
  /\ writeRet = "none"
  /\ nwrites = 0

\* -------------------------------------------------------- worker: start
InitWorker ==
  /\ pipelineInfo \in Pipelines
  /\ mutex = NoCall
  /\ objects = EmptyFn
  /\ blocks = {}
  /\ outDir = EmptyFn
  /\ pc = [c \in Calls |-> "idle"]
  /\ req = [c \in Calls |-> NoData]
  /\ ctxDone = [c \in Calls |-> FALSE]
  /\ tag = [c \in Calls |-> NoTag]
  /\ dlIdx = [c \in Calls |-> 0]
  /\ walkTodo = [c \in Calls |-> <<>>]
  /\ gstate = [c \in Calls |-> NoGoroutines]
  /\ gErr = [c \in Calls |-> "nil"]
  /\ lock = [c \in Calls |-> "free"]
  /\ tree = [c \in Calls |-> EmptyFn]
  /\ treeBytes = [c \in Calls |-> NoBytes]
  /\ resp = [c \in Calls |-> NoResp]
  /\ probe = [c \in Calls |-> "none"]
  /\ probeSaw = [c \in Calls |-> FALSE]
  /\ ran = [c \in Calls |-> NoRun]
  /\ stderr = [c \in Calls |-> FALSE]
  /\ wrote = [c \in Calls |-> FALSE]
  /\ steps = [c \in Calls |-> {}]
  /\ doneBefore = [c \in Calls |-> {}]

\* the worker alone: the store and the writer stay as constructed
Init == InitWorker /\ InitStore /\ storeImpl = "mem" /\ InitWriter

\* ------------------------------------------------------------ the Process RPC
\* a caller invokes Process(ctx, req); calls are numbered in order of
\* arrival (req.Data is drawn where Process first reads it, in HashDatum)
Receive(c) ==
  /\ pc[c] = "idle"
  /\ \A o \in Calls : o < c => pc[o] # "idle"
  /\ pc' = [pc EXCEPT ![c] = "lock"]
  /\ doneBefore' = [doneBefore EXCEPT ![c] = {o \in Calls : pc[o] = "done"}]
  /\ UNCHANGED <<aside, shared, mutex, req, ctxDone, tag, dlIdx, upl, resp,
                 probe, probeSaw, ran, stderr, wrote, steps>>

\* the caller cancels the request context while the call is in progress
Cancel(c) ==
  /\ pc[c] \notin {"idle", "return", "done"}
  /\ ~ctxDone[c]
  /\ ctxDone' = [ctxDone EXCEPT ![c] = TRUE]
  /\ UNCHANGED <<aside, shared, mutex, pc, req, tag, dlIdx, upl, resp, hist>>

\* (variant: a Lock that does not wait for the holder)
CanLock_NoWait(c) == TRUE

\* a.Lock() blocks until the mutex is free
CanLock(c) == mutex = NoCall

ProcessLock(c) ==
  /\ pc[c] = "lock"
  /\ CanLock(c)
  /\ mutex' = c
  /\ pc' = [pc EXCEPT ![c] = "hash"]
  /\ UNCHANGED <<aside, shared, req, ctxDone, tag, dlIdx, upl, resp, hist>>

\* a return statement of Process: sets (resp, retErr)
Return(c, r) ==
  /\ resp' = [resp EXCEPT ![c] = r]
  /\ pc' = [pc EXCEPT ![c] = "return"]

\* what the caller is left with: the tag, or that the call failed
Returned(r) == IF r.kind = "err" THEN ErrResp("err") ELSE r

\* the deferred a.Unlock() runs and the call is over
ProcessUnlock(c) ==
  /\ pc[c] = "return"
  /\ mutex' = NoCall
  /\ pc' = [pc EXCEPT ![c] = "done"]
  /\ resp' = [resp EXCEPT ![c] = Returned(@)]
  /\ ctxDone' = [ctxDone EXCEPT ![c] = FALSE]
  /\ tag' = [tag EXCEPT ![c] = NoTag]
  /\ dlIdx' = [dlIdx EXCEPT ![c] = 0]
  /\ probe' = [probe EXCEPT ![c] = "none"]
  /\ probeSaw' = [probeSaw EXCEPT ![c] = FALSE]
  /\ ran' = [ran EXCEPT ![c] = NoRun]
  /\ stderr' = [stderr EXCEPT ![c] = FALSE]
  /\ wrote' = [wrote EXCEPT ![c] = FALSE]
  /\ steps' = [steps EXCEPT ![c] = {}]
  /\ UNCHANGED <<aside, shared, req, upl, doneBefore>>

\* ppsserver.HashDatum(req.Data, a.pipelineInfo):
\* the digest of the datum and the transform, as a tag string
HashDatum(data, info) ==
  [err |-> "nil", tag |-> <<info.name, info.accept>> \o data]

ProcessHashDatum(c) ==
  /\ pc[c] = "hash"
  /\ \E data \in Datums :
       LET h == HashDatum(data, pipelineInfo) IN
       /\ req' = [req EXCEPT ![c] = data]
       /\ IF h.err # "nil"
          THEN /\ Return(c, ErrResp("HashDatum"))
               /\ UNCHANGED tag
          ELSE /\ tag' = [tag EXCEPT ![c] = h.tag]
               /\ pc' = [pc EXCEPT ![c] = "probe"]
               /\ UNCHANGED resp
  /\ UNCHANGED <<aside, shared, mutex, ctxDone, dlIdx, upl, hist>>

\* a.pachClient.GetTag(tag, treebytes): nil when the object is read,
\* a NotFound error when there is none, or another (transient) error
GetTagResults(t) ==
  (IF Exists(t) THEN {"nil"} ELSE {"notfound"}) \cup {"transient"}

\* (variant: the probe result is ignored, every call computes)
ProbeAction_Ignored(err) == "compute"

\* 'if err := GetTag(...); err == nil { return tag }', else fall through
ProbeAction(err) == IF err = "nil" THEN "return" ELSE "compute"

ProcessGetTag(c) ==
  /\ pc[c] = "probe"
  /\ \E err \in GetTagResults(tag[c]) :
       /\ probe' = [probe EXCEPT ![c] = err]
       /\ probeSaw' = [probeSaw EXCEPT ![c] = Exists(tag[c])]
       /\ IF ProbeAction(err) = "return"
          THEN Return(c, OkResp(tag[c]))
          ELSE IF ProbeAction(err) = "compute"
          THEN /\ pc' = [pc EXCEPT ![c] = "download"]
               /\ UNCHANGED resp
          ELSE Return(c, ErrResp("GetTag"))
  /\ UNCHANGED <<aside, shared, mutex, req, ctxDone, tag, dlIdx, upl,
                 ran, stderr, wrote, steps, doneBefore>>

\* ------------------------------------------------------------- downloadData
\* filesync.Pull(ctx, ...): fails once ctx is cancelled, may fail otherwise
PullResults(cancelled) == IF cancelled THEN {"cancelled"} ELSE {"nil", "io"}

\* one iteration of 'for i, datum := range data'
downloadData(c) ==
  /\ pc[c] = "download"
  /\ steps' = [steps EXCEPT ![c] = @ \cup {"download"}]
  /\ \E err \in PullResults(ctxDone[c]) :
       IF err # "nil"
       THEN /\ Return(c, ErrResp("downloadData"))
            /\ UNCHANGED dlIdx
       ELSE /\ dlIdx' = [dlIdx EXCEPT ![c] = @ + 1]
            /\ pc' = [pc EXCEPT ![c] =
                        IF dlIdx[c] + 1 = Len(req[c]) THEN "run" ELSE "download"]
            /\ UNCHANGED resp
  /\ UNCHANGED <<aside, shared, mutex, req, ctxDone, tag, upl,
                 probe, probeSaw, ran, stderr, wrote, doneBefore>>

\* -------------------------------------------------------------- runUserCode
\* syscall.WaitStatus.ExitStatus(): the exit code, -1 if not exited
ExitStatus(r) == IF r.kind = "exit" THEN r.code ELSE -1

\* cmd.Run() returned nil
RunOk(r) == r.kind = "exit" /\ r.code = 0

\* err.(*exec.ExitError)
IsExitError(r) == r.kind \in {"exit", "signal"} /\ ~RunOk(r)

\* the local 'success' of runUserCode
Success(r, accept) ==
  IF RunOk(r) THEN TRUE
  ELSE IF IsExitError(r) THEN ExitStatus(r) \in accept
  ELSE FALSE

\* (variant: the error of cmd.Run() is returned, 'success' is not consulted)
RunUserCodeErr_RunErr(r, success) == IF RunOk(r) THEN "nil" ELSE "exec"

\* the value runUserCode returns after cmd.Run(): 'return nil'
RunUserCodeErr(r, success) == "nil"

\* what runUserCode does once cmd.Run() has returned r
AfterRun(c, r) ==
  LET success == Success(r, pipelineInfo.accept) IN
  /\ ran' = [ran EXCEPT ![c] = r]
  /\ stderr' = [stderr EXCEPT ![c] = ~success]
  /\ IF RunUserCodeErr(r, success) # "nil"
     THEN Return(c, ErrResp("runUserCode"))
     ELSE /\ pc' = [pc EXCEPT ![c] = "upload"]
          /\ UNCHANGED resp

\* os.MkdirAll(/pfs/out) and the start of the user binary (cmd.Run)
runUserCodeStart(c) ==
  /\ pc[c] = "run"
  /\ steps' = [steps EXCEPT ![c] = @ \cup {"run"}]
  /\ \/ /\ Return(c, ErrResp("runUserCode"))
        /\ UNCHANGED <<ran, stderr>>
     \/ /\ pc' = [pc EXCEPT ![c] = "running"]
        /\ ran' = [ran EXCEPT ![c] = [kind |-> "running", code |-> 0]]
        /\ UNCHANGED <<resp, stderr>>
     \/ AfterRun(c, [kind |-> "starterr", code |-> 0])
  /\ UNCHANGED <<aside, shared, mutex, req, ctxDone, tag, dlIdx, upl,
                 probe, probeSaw, wrote, doneBefore>>

\* the user binary writes below /pfs/out and terminates (cmd.Run returns)
runUserCodeWait(c) ==
  /\ pc[c] = "running"
  /\ \E r \in {x \in CmdResults : x.kind # "starterr"},
        W \in BinaryWrites(req[c]) :
       /\ outDir' = [p \in DOMAIN outDir \cup W |->
                       IF p \in W THEN (IF IsDirPath(p) THEN DIR ELSE req[c])
                       ELSE outDir[p]]
       /\ AfterRun(c, r)
  /\ UNCHANGED <<aside, pipelineInfo, objects, blocks, mutex, req, ctxDone, tag,
                 dlIdx, upl, probe, probeSaw, wrote, steps, doneBefore>>

\* ------------------------------------------------------------- uploadOutput
\* hashtree builder: path -> [kind, refs]
NewHashTree == EmptyFn
DirNode == [kind |-> "dir", refs |-> <<>>]
FileNode(refs) == [kind |-> "file", refs |-> refs]

\* the chain of directories above p, up to but excluding the root
RECURSIVE Ancestors(_)
Ancestors(p) ==
  IF ParentOf(p) = ROOT THEN {} ELSE {ParentOf(p)} \cup Ancestors(ParentOf(p))

WithDirs(t, D) ==
  [p \in DOMAIN t \cup D |-> IF p \in DOMAIN t THEN t[p] ELSE DirNode]

\* tree.PutDir(relPath): the directory and its parent chain
PutDir(t, p) == WithDirs(t, {p} \cup Ancestors(p))

\* tree.PutFile(relPath, blockRefs): an error when the path is already in
\* the tree, else the file node and its parent chain
PutFileErr(t, p) == IF p \in DOMAIN t THEN "exists" ELSE "nil"
PutFile(t, p, refs) ==
  IF PutFileErr(t, p) # "nil" THEN t
  ELSE Put(WithDirs(t, Ancestors(p)), p, FileNode(refs))

\* tree.Finish() and hashtree.Serialize(finTree): the nodes in
\* lexicographic path order
Serialize(t) ==
  LET present == SelectSeq(AllPaths, LAMBDA p : p \in DOMAIN t)
  IN [i \in 1..Len(present) |->
        <<present[i], t[present[i]].kind, t[present[i]].refs>>]

\* the BlockRefs PutBlock returns for a file's content
BlockRefs(content) == <<[hash |-> content, len |-> Len(content)]>>

\* the order in which filepath.Walk visits the entries below /pfs/out
WalkOrder(dir) == SelectSeq(AllPaths, LAMBDA p : p \in DOMAIN dir)

\* errgroup.Group keeps the first non-nil error
GroupErr(old, err) == IF old = "nil" THEN err ELSE old

\* uploadOutput returns err: its locals are gone, Process returns err
UploadReturn(c, r) ==
  /\ Return(c, r)
  /\ walkTodo' = [walkTodo EXCEPT ![c] = <<>>]
  /\ gstate' = [gstate EXCEPT ![c] = NoGoroutines]
  /\ gErr' = [gErr EXCEPT ![c] = "nil"]
  /\ tree' = [tree EXCEPT ![c] = EmptyFn]
  /\ treeBytes' = [treeBytes EXCEPT ![c] = NoBytes]
  /\ UNCHANGED lock

\* 'tree := hashtree.NewHashTree()' and the start of filepath.Walk: the
\* walk function is called for the root, whose goroutine returns nil
uploadOutputBegin(c) ==
  /\ pc[c] = "upload"
  /\ steps' = [steps EXCEPT ![c] = @ \cup {"upload"}]
  /\ tree' = [tree EXCEPT ![c] = NewHashTree]
  /\ walkTodo' = [walkTodo EXCEPT ![c] = WalkOrder(outDir)]
  /\ pc' = [pc EXCEPT ![c] = IF WalkOrder(outDir) = <<>> THEN "gwait" ELSE "walk"]
  /\ UNCHANGED <<aside, shared, mutex, req, ctxDone, tag, dlIdx, gstate, gErr, lock,
                 treeBytes, resp, probe, probeSaw, ran, stderr, wrote,
                 doneBefore>>

\* the walk function: g.Go(...) for the next entry, 'return nil'
uploadOutputWalk(c) ==
  /\ pc[c] = "walk"
  /\ walkTodo[c] # <<>>
  /\ gstate' = [gstate EXCEPT ![c][Head(walkTodo[c])] = "start"]
  /\ walkTodo' = [walkTodo EXCEPT ![c] = Tail(@)]
  /\ pc' = [pc EXCEPT ![c] = IF Tail(walkTodo[c]) = <<>> THEN "gwait" ELSE "walk"]
  /\ UNCHANGED <<aside, shared, mutex, req, ctxDone, tag, dlIdx, gErr, lock, tree,
                 treeBytes, resp, hist>>

\* goroutine of a file: os.Open and a.pachClient.PutBlock
GoPutBlock(c, e) ==
  /\ gstate[c][e] = "start"
  /\ outDir[e] # DIR
  /\ \/ /\ gstate' = [gstate EXCEPT ![c][e] = "done"]
        /\ gErr' = [gErr EXCEPT ![c] = GroupErr(@, "open")]
        /\ UNCHANGED blocks
     \/ /\ gstate' = [gstate EXCEPT ![c][e] = "done"]
        /\ gErr' = [gErr EXCEPT ![c] = GroupErr(@, "putblock")]
        /\ UNCHANGED blocks
     \/ /\ blocks' = blocks \cup {outDir[e]}
        /\ gstate' = [gstate EXCEPT ![c][e] = "wantlock"]
        /\ UNCHANGED gErr
  /\ UNCHANGED <<aside, pipelineInfo, objects, outDir, mutex, pc, req, ctxDone, tag,
                 dlIdx, walkTodo, lock, tree, treeBytes, resp, hist>>

\* (variant: lock.Lock() does not wait for the holder)
LockFree_NoWait(c) == TRUE

\* lock.Lock() blocks until uploadOutput's 'lock' is free
LockFree(c) == lock[c] = "free"

\* lock.Lock(): in the goroutine of a directory, or after PutBlock
GoLock(c, e) ==
  /\ \/ gstate[c][e] = "start" /\ outDir[e] = DIR
     \/ gstate[c][e] = "wantlock"
  /\ LockFree(c)
  /\ lock' = [lock EXCEPT ![c] = e]
  /\ gstate' = [gstate EXCEPT ![c][e] = "locked"]
  /\ UNCHANGED <<aside, shared, mutex, pc, req, ctxDone, tag, dlIdx, walkTodo, gErr,
                 tree, treeBytes, resp, hist>>

\* tree.PutDir / tree.PutFile under the lock, then the deferred
\* lock.Unlock() and f.Close()
GoPut(c, e) ==
  /\ gstate[c][e] = "locked"
  /\ lock' = [lock EXCEPT ![c] = "free"]
  /\ gstate' = [gstate EXCEPT ![c][e] = "done"]
  /\ IF outDir[e] = DIR
     THEN /\ tree' = [tree EXCEPT ![c] = PutDir(@, e)]
          /\ UNCHANGED gErr
     ELSE /\ tree' = [tree EXCEPT ![c] = PutFile(@, e, BlockRefs(outDir[e]))]
          /\ \E closeErr \in {"nil", "close"} :
               LET retErr == IF PutFileErr(tree[c], e) # "nil"
                             THEN "putfile" ELSE closeErr
               IN gErr' = [gErr EXCEPT ![c] = GroupErr(@, retErr)]
  /\ UNCHANGED <<aside, shared, mutex, pc, req, ctxDone, tag, dlIdx, walkTodo,
                 treeBytes, resp, hist>>

\* g.Wait() returns once every goroutine has returned
GroupDone(c) == \A e \in Paths : gstate[c][e] \in {"none", "done"}

uploadOutputWait(c) ==
  /\ pc[c] = "gwait"
  /\ GroupDone(c)
  /\ IF gErr[c] # "nil"
     THEN UploadReturn(c, ErrResp("uploadOutput"))
     ELSE /\ pc' = [pc EXCEPT ![c] = "finish"]
          /\ UNCHANGED <<upl, resp>>
  /\ UNCHANGED <<aside, shared, mutex, req, ctxDone, tag, dlIdx, hist>>

\* tree.Finish() and hashtree.Serialize(finTree)
uploadOutputFinish(c) ==
  /\ pc[c] = "finish"
  /\ \/ UploadReturn(c, ErrResp("uploadOutput"))
     \/ /\ treeBytes' = [treeBytes EXCEPT ![c] = Serialize(tree[c])]
        /\ pc' = [pc EXCEPT ![c] = "putobject"]
        /\ UNCHANGED <<walkTodo, gstate, gErr, lock, tree, resp>>
  /\ UNCHANGED <<aside, shared, mutex, req, ctxDone, tag, dlIdx, hist>>

\* (variant: the tag is written without waiting for the errgroup)
AtPutObject_NoWait(c) == pc[c] \in {"gwait", "putobject"}

\* uploadOutput writes the tag after g.Wait(), Finish and Serialize
AtPutObject(c) == pc[c] = "putobject"

\* a.pachClient.PutObject(bytes.NewReader(treeBytes), tag) and the return
uploadOutputPutObject(c) ==
  /\ AtPutObject(c)
  /\ pc[c] \in {"walk", "gwait", "finish", "putobject"}
  /\ \/ /\ UploadReturn(c, ErrResp("uploadOutput"))
        /\ UNCHANGED <<objects, wrote>>
     \/ /\ objects' = Put(objects, tag[c], treeBytes[c])
        /\ wrote' = [wrote EXCEPT ![c] = TRUE]
        /\ UploadReturn(c, OkResp(tag[c]))
  /\ UNCHANGED <<aside, pipelineInfo, blocks, outDir, mutex, req, ctxDone, tag, dlIdx,
                 probe, probeSaw, ran, stderr, steps, doneBefore>>

\* ------------------------------------------------------------ specification
Next ==
  \/ \E c \in Calls : Receive(c)
  \/ \E c \in Calls : Cancel(c)
  \/ \E c \in Calls : ProcessLock(c)
  \/ \E c \in Calls : ProcessHashDatum(c)
  \/ \E c \in Calls : ProcessGetTag(c)
  \/ \E c \in Calls : downloadData(c)
  \/ \E c \in Calls : runUserCodeStart(c)
  \/ \E c \in Calls : runUserCodeWait(c)
  \/ \E c \in Calls : uploadOutputBegin(c)
  \/ \E c \in Calls : uploadOutputWalk(c)
  \/ \E c \in Calls, e \in Paths : GoPutBlock(c, e)
  \/ \E c \in Calls, e \in Paths : GoLock(c, e)
  \/ \E c \in Calls, e \in Paths : GoPut(c, e)
  \/ \E c \in Calls : uploadOutputWait(c)
  \/ \E c \in Calls : uploadOutputFinish(c)
  \/ \E c \in Calls : uploadOutputPutObject(c)
  \/ \E c \in Calls : ProcessUnlock(c)

Spec == Init /\ [][Next]_vars

\* ============================================================ commit store
\* one caller at a time invokes the operations of the store; the calls of
\* the SQL-backed store are followed statement by statement
CanCall == cs.pc \in {"idle", "ret"} /\ nops < MaxOps

\* a caller invokes operation op with argument arg
Enter(op, arg, pc0) ==
  /\ CanCall
  /\ nops' = nops + 1
  /\ pre' = Snapshot
  /\ lastAdd' = IF cs.op = "AddFileset" /\ csRet.err = "nil" THEN cs.arg ELSE NoID
  /\ cs' = [op |-> op, pc |-> pc0, arg |-> arg, ids |-> <<>>, id |-> NoID]

\* 'ids = append(ids, *id)' / INSERT INTO pfs.commit_diffs with the next num
\* (variant: the new fileset is put first)
AppendStaging_First(ids, id) == <<id>> \o ids

AppendStaging(ids, id) == Append(ids, id)

\* ---------------------------------------------------------- memCommitStore
\* every operation holds s.mu from its first statement to its return
memAddFileset(f) ==
  /\ storeImpl = "mem"
  /\ Enter("AddFileset", f, "ret")
  /\ IF total # NoID
     THEN /\ csRet' = Ret("finished")
          /\ UNCHANGED <<staging, filesets, added>>
     ELSE \E err \in StorageResults :
            IF err # "nil"
            THEN /\ csRet' = Ret(err)
                 /\ UNCHANGED <<staging, filesets, added>>
            ELSE /\ filesets' = Clone(filesets, f, NoTTL)
                 /\ staging' = AppendStaging(staging, NewID(filesets))
                 /\ added' = Append(added, filesets[f].content)
                 /\ csRet' = Ret("nil")
  /\ UNCHANGED <<storeImpl, total, upd, workerVars, writerVars>>

memGetFileset ==
  /\ storeImpl = "mem"
  /\ Enter("GetFileset", NoID, "ret")
  /\ \E err \in StorageResults :
       IF err # "nil"
       THEN /\ csRet' = Ret(err)
            /\ UNCHANGED filesets
       ELSE IF total # NoID
       THEN /\ filesets' = Clone(filesets, total, defaultTTL)
            /\ csRet' = RetID("clone", NewID(filesets))
       ELSE /\ filesets' = Compose(filesets, staging, defaultTTL)
            /\ csRet' = RetID("compose", NewID(filesets))
  /\ UNCHANGED <<storeImpl, staging, total, added, upd, workerVars, writerVars>>

\* (variant: the ID handed to fn is stored as the total)
NewTotal_Arg(id, x) == x

\* 's.finished[key] = *id': the NoTTL clone of fn's result is the new total
NewTotal(id, x) == id

memUpdateFileset(fn) ==
  /\ storeImpl = "mem"
  /\ Enter("UpdateFileset", NoID, "ret")
  /\ LET exists == total # NoID IN
     \E composeErr \in (IF exists THEN {"nil"} ELSE StorageResults) :
       IF composeErr # "nil"
       THEN /\ csRet' = Ret(composeErr)
            /\ UNCHANGED <<total, filesets, upd>>
       ELSE LET fs1 == IF exists THEN filesets
                       ELSE Compose(filesets, staging, defaultTTL)
                x == IF exists THEN total ELSE NewID(filesets)
                r == ApplyFn(fn, x)
            IN IF r.err # "nil"
               THEN /\ csRet' = Ret(r.err)
                    /\ filesets' = fs1
                    /\ UNCHANGED <<total, upd>>
               ELSE \E cloneErr \in StorageResults :
                      IF cloneErr # "nil"
                      THEN /\ csRet' = Ret(cloneErr)
                           /\ filesets' = fs1
                           /\ UNCHANGED <<total, upd>>
                      ELSE \E dropErr \in StorageResults :
                             LET fs2 == Clone(fs1, r.y, NoTTL) IN
                             /\ total' = NewTotal(NewID(fs1), x)
                             /\ filesets' = IF dropErr = "nil"
                                            THEN Drop(fs2, x) ELSE fs2
                             /\ upd' = [fn |-> fn, x |-> x, y |-> r.y,
                                        total |-> NewTotal(NewID(fs1), x)]
                             /\ csRet' = Ret(dropErr)
  /\ UNCHANGED <<storeImpl, staging, added, workerVars, writerVars>>

memDropFilesets ==
  /\ storeImpl = "mem"
  /\ Enter("DropFilesets", NoID, "ret")
  /\ total' = NoID
  /\ staging' = <<>>
  /\ added' = <<>>
  /\ csRet' = Ret("nil")
  /\ UNCHANGED <<storeImpl, filesets, upd, workerVars, writerVars>>

\* ----------------------------------------------------- postgresCommitStore
\* a caller invokes an operation; its first statement runs next
pgEnter(op, arg, pc0) ==
  /\ Enter(op, arg, pc0)
  /\ csRet' = NoRet
  /\ UNCHANGED <<storeImpl, staging, total, filesets, added, upd, workerVars,
                 writerVars>>

\* the call returns err
pgReturn(err) ==
  /\ cs' = [cs EXCEPT !.pc = "ret"]
  /\ csRet' = Ret(err)

pgAt(p) == storeImpl = "pg" /\ cs.pc = p

pgAddFileset(f) ==
  /\ storeImpl = "pg"
  /\ pgEnter("AddFileset", f, "add.clone")

\* id2, err := cs.s.Clone(ctx, id, track.NoTTL)
pgAddFilesetClone ==
  /\ pgAt("add.clone")
  /\ \E err \in StorageResults :
       IF err # "nil"
       THEN /\ pgReturn(err)
            /\ UNCHANGED filesets
       ELSE /\ filesets' = Clone(filesets, cs.arg, NoTTL)
            /\ cs' = [cs EXCEPT !.pc = "add.insert", !.id = NewID(filesets)]
            /\ UNCHANGED csRet
  /\ UNCHANGED <<storeImpl, staging, total, pre, added, lastAdd, nops,
                 upd, workerVars, writerVars>>

\* INSERT INTO pfs.commit_diffs ... RETURNING num
pgAddFilesetInsert ==
  /\ pgAt("add.insert")
  /\ \E err \in ExecResults :
       IF err # "nil"
       THEN /\ pgReturn(err)
            /\ UNCHANGED <<staging, added>>
       ELSE /\ staging' = AppendStaging(staging, cs.id)
            /\ added' = Append(added, filesets[cs.arg].content)
            /\ pgReturn("nil")
  /\ UNCHANGED <<storeImpl, total, filesets, pre, lastAdd, nops, upd, workerVars,
                 writerVars>>

pgGetFileset ==
  /\ storeImpl = "pg"
  /\ pgEnter("GetFileset", NoID, "get.total")

\* id, err := cs.getTotal(ctx, commit); 'if err == nil' the total is cloned,
\* on any error the diffs are read
pgGetFilesetTotal ==
  /\ pgAt("get.total")
  /\ \E err \in GetRowResults(total # NoID) :
       IF err = "nil"
       THEN cs' = [cs EXCEPT !.pc = "get.clone", !.id = total]
       ELSE cs' = [cs EXCEPT !.pc = "get.diff"]
  /\ UNCHANGED <<storeImpl, staging, total, filesets, csRet, pre, added,
                 lastAdd, nops, upd, workerVars, writerVars>>

\* return cs.s.Clone(ctx, *id, defaultTTL)
pgGetFilesetClone ==
  /\ pgAt("get.clone")
  /\ \E err \in StorageResults :
       IF err # "nil"
       THEN /\ pgReturn(err)
            /\ UNCHANGED filesets
       ELSE /\ filesets' = Clone(filesets, cs.id, defaultTTL)
            /\ cs' = [cs EXCEPT !.pc = "ret"]
            /\ csRet' = RetID("clone", NewID(filesets))
  /\ UNCHANGED <<storeImpl, staging, total, pre, added, lastAdd, nops,
                 upd, workerVars, writerVars>>

\* ids, err := cs.getDiff(ctx, commit): the rows ORDER BY num
pgGetFilesetDiff ==
  /\ pgAt("get.diff")
  /\ \E err \in ExecResults :
       IF err # "nil"
       THEN pgReturn(err)
       ELSE /\ cs' = [cs EXCEPT !.pc = "get.compose", !.ids = staging]
            /\ UNCHANGED csRet
  /\ UNCHANGED <<storeImpl, staging, total, filesets, pre, added, lastAdd,
                 nops, upd, workerVars, writerVars>>

\* return cs.s.Compose(ctx, ids, defaultTTL)
pgGetFilesetCompose ==
  /\ pgAt("get.compose")
  /\ \E err \in StorageResults :
       IF err # "nil"
       THEN /\ pgReturn(err)
            /\ UNCHANGED filesets
       ELSE /\ filesets' = Compose(filesets, cs.ids, defaultTTL)
            /\ cs' = [cs EXCEPT !.pc = "ret"]
            /\ csRet' = RetID("compose", NewID(filesets))
  /\ UNCHANGED <<storeImpl, staging, total, pre, added, lastAdd, nops,
                 upd, workerVars, writerVars>>

pgSetFileset(id) ==
  /\ storeImpl = "pg"
  /\ pgEnter("SetFileset", id, "set.upsert")

\* INSERT INTO pfs.commit_totals ... ON CONFLICT DO UPDATE SET fileset_id
pgSetFilesetUpsert ==
  /\ pgAt("set.upsert")
  /\ \E err \in ExecResults :
       IF err # "nil"
       THEN /\ pgReturn(err)
            /\ UNCHANGED total
       ELSE /\ total' = cs.arg
            /\ pgReturn("nil")
  /\ UNCHANGED <<storeImpl, staging, filesets, pre, added, lastAdd, nops,
                 upd, workerVars, writerVars>>

pgDropFilesets ==
  /\ storeImpl = "pg"
  /\ pgEnter("DropFilesets", NoID, "drop.diff")

\* diffIDs, err := cs.getDiff(ctx, commit)
pgDropFilesetsDiff ==
  /\ pgAt("drop.diff")
  /\ \E err \in ExecResults :
       IF err # "nil"
       THEN pgReturn(err)
       ELSE /\ cs' = [cs EXCEPT !.ids = staging,
                                !.pc = IF staging = <<>> THEN "drop.delete"
                                       ELSE "drop.loop"]
            /\ UNCHANGED csRet
  /\ UNCHANGED <<storeImpl, staging, total, filesets, pre, added, lastAdd,
                 nops, upd, workerVars, writerVars>>

\* one iteration of 'for _, id := range diffIDs': cs.s.Drop(ctx, id)
pgDropFilesetsDrop ==
  /\ pgAt("drop.loop")
  /\ \E err \in StorageResults :
       IF err # "nil"
       THEN /\ pgReturn(err)
            /\ UNCHANGED filesets
       ELSE /\ filesets' = Drop(filesets, Head(cs.ids))
            /\ cs' = [cs EXCEPT !.ids = Tail(@),
                                !.pc = IF Tail(cs.ids) = <<>> THEN "drop.delete"
                                       ELSE "drop.loop"]
            /\ UNCHANGED csRet
  /\ UNCHANGED <<storeImpl, staging, total, pre, added, lastAdd, nops,
                 upd, workerVars, writerVars>>

\* DELETE FROM pfs.commit_diffs WHERE repo_name = $1 AND commit_id = $2
\* (the call passes no arguments for $1 and $2; both outcomes of the
\* statement are kept)
pgDropFilesetsDeleteDiffs ==
  /\ pgAt("drop.delete")
  /\ \E err \in ExecResults :
       IF err # "nil"
       THEN /\ pgReturn(err)
            /\ UNCHANGED <<staging, added>>
       ELSE /\ staging' = <<>>
            /\ added' = <<>>
            /\ cs' = [cs EXCEPT !.pc = "drop.total"]
            /\ UNCHANGED csRet
  /\ UNCHANGED <<storeImpl, total, filesets, pre, lastAdd, nops, upd, workerVars,
                 writerVars>>

\* id, err := cs.getTotal(ctx, commit); 'if err != nil { return err }'
pgDropFilesetsTotal ==
  /\ pgAt("drop.total")
  /\ \E err \in GetRowResults(total # NoID) :
       IF err # "nil"
       THEN pgReturn(err)
       ELSE /\ cs' = [cs EXCEPT !.pc = "drop.droptotal", !.id = total]
            /\ UNCHANGED csRet
  /\ UNCHANGED <<storeImpl, staging, total, filesets, pre, added, lastAdd,
                 nops, upd, workerVars, writerVars>>

\* cs.s.Drop(ctx, *id)
pgDropFilesetsDropTotal ==
  /\ pgAt("drop.droptotal")
  /\ \E err \in StorageResults :
       IF err # "nil"
       THEN /\ pgReturn(err)
            /\ UNCHANGED filesets
       ELSE /\ filesets' = Drop(filesets, cs.id)
            /\ cs' = [cs EXCEPT !.pc = "drop.deletetotal"]
            /\ UNCHANGED csRet
  /\ UNCHANGED <<storeImpl, staging, total, pre, added, lastAdd, nops,
                 upd, workerVars, writerVars>>

\* DELETE FROM pfs.commit_totals WHERE repo_name = $1 AND commit_id = $2
pgDropFilesetsDeleteTotal ==
  /\ pgAt("drop.deletetotal")
  /\ \E err \in ExecResults :
       IF err # "nil"
       THEN /\ pgReturn(err)
            /\ UNCHANGED total
       ELSE /\ total' = NoID
            /\ pgReturn("nil")
  /\ UNCHANGED <<storeImpl, staging, filesets, pre, added, lastAdd, nops,
                 upd, workerVars, writerVars>>

NextStore ==
  \/ \E f \in InputIDs : memAddFileset(f)
  \/ memGetFileset
  \/ \E fn \in Closures : memUpdateFileset(fn)
  \/ memDropFilesets
  \/ \E f \in InputIDs : pgAddFileset(f)
  \/ pgAddFilesetClone
  \/ pgAddFilesetInsert
  \/ pgGetFileset
  \/ pgGetFilesetTotal
  \/ pgGetFilesetClone
  \/ pgGetFilesetDiff
  \/ pgGetFilesetCompose
  \/ \E id \in InputIDs : pgSetFileset(id)
  \/ pgSetFilesetUpsert
  \/ pgDropFilesets
  \/ pgDropFilesetsDiff
  \/ pgDropFilesetsDrop
  \/ pgDropFilesetsDeleteDiffs
  \/ pgDropFilesetsTotal
  \/ pgDropFilesetsDropTotal
  \/ pgDropFilesetsDeleteTotal

\* the commit store alone: the worker and the writer stay as constructed
StoreInit == InitStore /\ InitWorker /\ InitWriter

SpecStore == StoreInit /\ [][NextStore]_vars

\* ====================================================== object-store writer
\* one producer calls Write and Close on a minioWriter; the goroutine
\* started by newMinioWriter runs client.PutObject on the read end
\* w.pipe.Write(p): fails at once on a closed pipe, else hands p to the
\* reader and blocks
minioWriterWrite(ch) ==
  /\ wpc \in {"open", "closed"}
  /\ nwrites < MaxWrites
  /\ nwrites' = nwrites + 1
  /\ IF pipe.rerr # "nil"
     THEN /\ writeRet' = pipe.rerr
          /\ UNCHANGED <<wpc, pipe>>
     ELSE IF pipe.wdone
     THEN /\ writeRet' = "closedpipe"
          /\ UNCHANGED <<wpc, pipe>>
     ELSE /\ pipe' = [pipe EXCEPT !.data = <<ch>>]
          /\ wpc' = "write"
          /\ writeRet' = "none"
  /\ UNCHANGED <<upc, putErr, recvd, closeRet, workerVars, storeVars>>

\* w.pipe.Write returns: the reader has taken the data, or has closed the
\* read end with an error
minioWriterWriteReturn ==
  /\ wpc = "write"
  /\ IF pipe.rerr # "nil"
     THEN /\ writeRet' = pipe.rerr
          /\ pipe' = [pipe EXCEPT !.data = <<>>]
     ELSE /\ pipe.data = <<>>
          /\ writeRet' = "nil"
          /\ UNCHANGED pipe
  /\ wpc' = "open"
  /\ UNCHANGED <<upc, putErr, recvd, closeRet, nwrites, workerVars,
                 storeVars>>

\* client.PutObject reads from the pipe
PutObjectRead ==
  /\ upc = "putobject"
  /\ pipe.data # <<>>
  /\ recvd' = recvd \o pipe.data
  /\ pipe' = [pipe EXCEPT !.data = <<>>]
  /\ UNCHANGED <<wpc, upc, putErr, closeRet, writeRet, nwrites, workerVars,
                 storeVars>>

\* '_, err := client.PutObject(...)' returns: nil once it has read to the
\* end of the stream, an error at any time
PutObjectReturn ==
  /\ upc = "putobject"
  /\ \/ /\ pipe.wdone /\ pipe.data = <<>>
        /\ putErr' = "nil"
        /\ upc' = "send"
     \/ /\ putErr' = "upload"
        /\ upc' = "closewitherror"
  /\ UNCHANGED <<wpc, pipe, recvd, closeRet, writeRet, nwrites, workerVars,
                 storeVars>>

\* (variant: the read end is not closed when PutObject fails)
CloseWithError_Skip(p, err) == p

\* reader.CloseWithError(err): writes to the pipe fail with err from now on
CloseWithError(p, err) == [p EXCEPT !.rerr = err]

\* 'if err != nil { reader.CloseWithError(err) }'
GoCloseWithError ==
  /\ upc = "closewitherror"
  /\ pipe' = CloseWithError(pipe, putErr)
  /\ upc' = "send"
  /\ UNCHANGED <<wpc, putErr, recvd, closeRet, writeRet, nwrites, workerVars,
                 storeVars>>

\* Close: 'w.pipe.Close()' returns nil, then Close waits at '<-w.errChan'
minioWriterClose ==
  /\ wpc \in {"open", "closed"}
  /\ pipe' = [pipe EXCEPT !.wdone = TRUE]
  /\ wpc' = "close"
  /\ UNCHANGED <<upc, putErr, recvd, closeRet, writeRet, nwrites, workerVars,
                 storeVars>>

\* (variant: Close does not wait for the goroutine's send)
SendReady_NoWait == TRUE

\* 'w.errChan <- err': the goroutine is blocked in the send on the
\* unbuffered channel
SendReady == upc = "send"

\* 'return <-w.errChan' meets 'w.errChan <- err': Close returns the value
\* sent and the goroutine ends
minioWriterCloseReturn ==
  /\ wpc = "close"
  /\ SendReady
  /\ closeRet' = putErr
  /\ wpc' = "closed"
  /\ upc' = "exit"
  /\ UNCHANGED <<pipe, putErr, recvd, writeRet, nwrites, workerVars,
                 storeVars>>

NextWriter ==
  \/ \E ch \in Chunks : minioWriterWrite(ch)
  \/ minioWriterWriteReturn
  \/ PutObjectRead
  \/ PutObjectReturn
  \/ GoCloseWithError
  \/ minioWriterClose
  \/ minioWriterCloseReturn

\* a well-behaved producer: Write calls one after another, then one Close
producerWrite(ch) ==
  /\ wpc = "open"
  /\ minioWriterWrite(ch)

producerClose ==
  /\ wpc = "open"
  /\ minioWriterClose

NextProducer ==
  \/ \E ch \in Chunks : producerWrite(ch)
  \/ minioWriterWriteReturn
  \/ PutObjectRead
  \/ PutObjectReturn
  \/ GoCloseWithError
  \/ producerClose
  \/ minioWriterCloseReturn

\* the producer goes on to Close, PutObject terminates, and a goroutine
\* that can take its next step is scheduled
WriterFairness ==
  /\ WF_vars(producerClose)
  /\ WF_vars(PutObjectReturn)
  /\ WF_vars(minioWriterWriteReturn)
  /\ WF_vars(GoCloseWithError)
  /\ WF_vars(minioWriterCloseReturn)

\* the writer alone: the worker and the store stay as constructed
WriterInit == InitWriter /\ InitWorker /\ InitStore /\ storeImpl = "mem"

SpecWriter == WriterInit /\ [][NextWriter]_vars

\* the writer with a well-behaved producer and fair scheduling
SpecProducer == WriterInit /\ [][NextProducer]_vars /\ WriterFairness

\* ================================================================ properties
\* the user binary of the call ended with a non-zero exit code that is not
\* in accept_return_code, or was killed by a signal
UserCodeFailed(c) ==
  \/ ran[c].kind = "signal"
  \/ /\ ran[c].kind = "exit"
     /\ ran[c].code # 0
     /\ ran[c].code \notin pipelineInfo.accept

\* the user binary of the call exited with 0 or an accepted code
UserCodeAccepted(c) ==
  /\ ran[c].kind = "exit"
  /\ ran[c].code = 0 \/ ran[c].code \in pipelineInfo.accept

\* the producing window of Process: download, user-process run, upload
InWindow(c) ==
  pc[c] \in {"download", "run", "running", "upload", "walk", "gwait",
             "finish", "putobject"}

\* the serialized tree that records every entry of a directory
TreeBytesOf(dir) ==
  Serialize([p \in DOMAIN dir |->
               IF dir[p] = DIR THEN DirNode ELSE FileNode(BlockRefs(dir[p]))])

\* C1 (as claimed): a Process call whose user binary failed (non-accepted
\* exit code or signal) writes no object at the datum's tag.
C1_FailureAtomicity == \A c \in Calls : UserCodeFailed(c) => ~wrote[c]

\* C2 (as claimed): a Process call whose user binary failed returns an
\* error response, not a success response carrying the tag.
C2_UserFailureReported ==
  \A c \in Calls :
    (pc[c] = "return" /\ UserCodeFailed(c)) => resp[c].kind = "err"

C5_TagWrittenLast ==
  [][ /\ objects' # objects =>
           \E c \in Calls :
             /\ pc[c] = "putobject" /\ walkTodo[c] = <<>>
             /\ \A e \in DOMAIN outDir : gstate[c][e] = "done"
             /\ gErr[c] = "nil"
             /\ treeBytes[c] = Serialize(tree[c])
             /\ objects' = Put(objects, tag[c], treeBytes[c])
             /\ resp'[c] = OkResp(tag[c])
      /\ \A c \in Calls :
           (pc'[c] = "return" /\ resp'[c].kind = "err") => ~wrote'[c]
      /\ \A c \in Calls :
           (pc[c] = "probe" /\ pc'[c] # "probe" /\ ~Exists(tag[c])) =>
              pc'[c] = "download"
    ]_vars

C5_Witness ==
  \E c \in Calls : \E o \in doneBefore[c] :
    /\ req[o] = req[c] /\ resp[o].kind = "err"
    /\ probe[c] = "notfound" /\ ran[c] # NoRun /\ wrote[c]

\* C6: at most one Process call is in the producing window at any time.
C6_SingleTenant ==
  \A a, b \in Calls : (a # b /\ InWindow(a)) => ~InWindow(b)

C6_Witness ==
  \E a, b \in Calls : a # b /\ InWindow(a) /\ pc[b] = "lock"

\* C7 (as claimed): while one call is in its producing window, another
\* call that has arrived is not held back: it can go on to compute its tag
\* and probe the cache.
C7_ProbeAdmittedConcurrently ==
  \A a, b \in Calls :
    (a # b /\ InWindow(a) /\ pc[b] = "lock") => ENABLED ProcessLock(b)

\* C7 (amended): the tag computation and the cache probe run under the
\* worker-wide mutex too: a call that computes its tag or probes holds the
\* mutex, and while one call is in its producing window every other call
\* that has arrived waits at a.Lock().
C7_ProbeUnderMutex ==
  /\ \A c \in Calls : pc[c] \in {"hash", "probe"} =>
       (mutex = c /\ \A o \in Calls \ {c} : ~InWindow(o))
  /\ \A a, b \in Calls :
       (a # b /\ InWindow(a) /\ pc[b] = "lock") => ~ENABLED ProcessLock(b)

C7_Witness ==
  \E a, b \in Calls :
    a # b /\ pc[a] = "running" /\ pc[b] = "lock" /\ ~ctxDone[a]

\* C8 (as claimed): a probe that fails with an error other than NotFound
\* makes Process return an error without download, user binary or upload.
C8_OnlyNotFoundComputes ==
  \A c \in Calls :
    probe[c] = "transient" =>
      /\ steps[c] = {} /\ ran[c] = NoRun /\ ~wrote[c]
      /\ pc[c] = "return" /\ resp[c].kind = "err"

\* C9 (as claimed): a call whose context was cancelled before its tag
\* write writes no object at the tag.
C9_CancelledNotPublished == \A c \in Calls : wrote[c] => ~ctxDone[c]

\* C10: a call whose user binary exits with 0 or an accepted code, and
\* whose upload succeeds, returns success and leaves the tree of the output
\* directory stored under its tag.
C10_AcceptReturnCode ==
  \A c \in Calls :
    (pc[c] = "return" /\ UserCodeAccepted(c)) =>
       \/ resp[c] = ErrResp("uploadOutput")
       \/ /\ resp[c] = OkResp(tag[c])
          /\ Exists(tag[c])
          /\ objects[tag[c]] = TreeBytesOf(outDir)

C10_Witness ==
  \E c \in Calls :
    /\ pc[c] = "return" /\ ran[c] = [kind |-> "exit", code |-> 3]
    /\ 3 \in pipelineInfo.accept
    /\ resp[c] = OkResp(tag[c]) /\ Exists(tag[c])

\* ------------------------------------------------- commit store properties
\* a store call has returned
StoreReturned(op) == cs.op = op /\ cs.pc = "ret"

\* the content a returned fileset.ID refers to
ContentOf(id) == filesets[id].content

\* errors that are a storage or database fault
Faults == {"io", "db"}

\* C11 (as claimed): in both stores, AddFileset on a commit that has a
\* finished total returns an error and leaves the commit's staging list and
\* total unchanged.
C11_AddToFinishedFails ==
  (StoreReturned("AddFileset") /\ pre.total # NoID) =>
     /\ csRet.err # "nil"
     /\ staging = pre.staging
     /\ total = pre.total

\* C12 (as claimed): GetFileset on a commit that has a finished total F
\* never returns a composition of the staging list, whatever its internal
\* lookups return; when it succeeds it returns a clone of F.
C12_FinishedSupersedesStaging ==
  (StoreReturned("GetFileset") /\ pre.total # NoID) =>
     /\ csRet.kind # "compose"
     /\ csRet.err = "nil" =>
          (csRet.kind = "clone" /\ ContentOf(csRet.id) = ContentOf(pre.total))

\* C13: the staging list of a commit holds exactly the filesets of the
\* successful AddFileset calls since the commit's staging was last dropped,
\* in the order those calls returned; for a commit without a finished total
\* a successful GetFileset returns the composition of that list in that
\* order, so the fileset added last wins at an overlapping leaf.
C13_StagingMergeOrder ==
  /\ (cs.pc \in {"idle", "ret"}) => ContentsOf(filesets, staging) = added
  /\ (StoreReturned("GetFileset") /\ pre.total = NoID /\ csRet.err = "nil") =>
        /\ csRet.kind = "compose"
        /\ ContentOf(csRet.id) = ComposeContent(added)
        /\ \A i \in 1..Len(added) : \A p \in DOMAIN added[i] :
             (\A j \in (i+1)..Len(added) : p \notin DOMAIN added[j]) =>
                ContentOf(csRet.id)[p] = added[i][p]

C13_Witness ==
  /\ StoreReturned("GetFileset") /\ csRet.err = "nil" /\ pre.total = NoID
  /\ added = <<F1, F2>>
  /\ ContentOf(csRet.id)["p"] = F2["p"]

\* C14 (as claimed): in both stores, when a successful AddFileset(c, f) is
\* immediately followed by GetFileset(c), the fileset returned contains
\* every path of f.
C14_ReadYourWrites ==
  (StoreReturned("GetFileset") /\ lastAdd # NoID /\ csRet.err = "nil") =>
     DOMAIN ContentOf(lastAdd) \subseteq DOMAIN ContentOf(csRet.id)

\* C15 (as claimed): a DropFilesets call that meets no storage or database
\* fault succeeds, and afterwards the commit has no staging entry and no
\* total and every NoTTL reference the store created has been dropped.
C15_DropReleasesAll ==
  (StoreReturned("DropFilesets") /\ csRet.err \notin Faults) =>
     /\ csRet.err = "nil"
     /\ staging = <<>>
     /\ total = NoID
     /\ \A i \in DOMAIN filesets : filesets[i].ttl = NoTTL => ~filesets[i].live

\* C16 (as claimed): while AddFileset, SetFileset or DropFilesets of the
\* SQL-backed store is in progress, and after it has returned an error, the
\* rows of the commit and the live fileset references are as they were
\* before the call.
C16_AllOrNothing ==
  (/\ storeImpl = "pg"
   /\ cs.op \in {"AddFileset", "SetFileset", "DropFilesets"}
   /\ cs.pc # "ret" \/ csRet.err # "nil") => Snapshot = pre

\* ------------------------------------------------------- writer properties
\* C17: Close does not return before the goroutine's PutObject has
\* returned, and the value Close returns is the error of PutObject: nil
\* only if the upload succeeded, which it does only after it has read all
\* the data of the Write calls that returned nil.
C17_CloseSurfacesUpload ==
  /\ wpc = "closed" => (putErr # "none" /\ closeRet = putErr)
  /\ closeRet # "none" => closeRet = putErr
  /\ closeRet = "nil" => (pipe.wdone /\ pipe.data = <<>>)

C17_Witness ==
  /\ wpc = "closed" /\ closeRet = "upload" /\ putErr = "upload"
  /\ recvd # <<>>

\* --------------------------------------------- worker properties, continued
\* the tree that has one Directory node for every directory and one File
\* node for every file below the output root
TreeOf(dir) ==
  [p \in DOMAIN dir |->
     IF dir[p] = DIR THEN DirNode ELSE FileNode(BlockRefs(dir[p]))]

\* the paths of the entries of a serialized tree
EntryPaths(bytes) == {bytes[i][1] : i \in 1..Len(bytes)}

\* C18: in every interleaving of the upload goroutines at most one of them
\* is between lock.Lock() and lock.Unlock(), where the builder is mutated;
\* when the goroutines have all returned without error the tree holds
\* exactly one Directory node per directory (empty ones too) and one File
\* node per file below the output root and no node for the root, and the
\* serialized tree is the one of the output directory.
C18_UploadFaithful ==
  \A c \in Calls :
    /\ \A e, f \in Paths :
         (gstate[c][e] = "locked" /\ gstate[c][f] = "locked") => e = f
    /\ \A e \in Paths : gstate[c][e] = "locked" => lock[c] = e
    /\ pc[c] = "finish" => (tree[c] = TreeOf(outDir) /\ ROOT \notin DOMAIN tree[c])
    /\ pc[c] = "putobject" => treeBytes[c] = TreeBytesOf(outDir)

C18_Witness ==
  \E c \in Calls :
    /\ pc[c] = "putobject"
    /\ DOMAIN outDir = {"d", "d/f"}
    /\ treeBytes[c] = <<<<"d", "dir", <<>>>>,
                        <<"d/f", "file", BlockRefs(outDir["d/f"])>>>>

\* C19 (as claimed): the tree that a call whose user binary exited with 0
\* stores under its tag holds only entries that the user binary writes for
\* the call's datum; entries left
\* in the output directory by an earlier call do not appear in it.
C19_TreeOfDatumOnly ==
  \A c \in Calls :
    (wrote[c] /\ RunOk(ran[c])) =>
       EntryPaths(objects[tag[c]]) \subseteq BinaryOutput(req[c])

\* C20 (as claimed): a call that was in progress together with another call
\* for the same datum which has returned success does not execute the user
\* binary.
C20_OneComputePerFingerprint ==
  \A c, o \in Calls :
    (/\ c # o /\ o \notin doneBefore[c]
     /\ pc[o] = "done" /\ resp[o].kind = "ok"
     /\ pc[c] \notin {"idle", "lock", "hash"} /\ req[o] = req[c])
    => ran[c].kind \notin {"running", "exit", "signal"}

\* --------------------------------------- commit store properties, continued
\* C21: when UpdateFileset of the in-memory store succeeds, fn was applied
\* to the commit's prior total if there was one and otherwise to the
\* composition of the staging list in append order; the total afterwards is
\* a new live NoTTL reference to the content of fn's result; the reference
\* handed to fn has been dropped; and while that total stands a successful
\* GetFileset returns a clone with the content of fn's result.
C21_UpdateFinishesCommit ==
  /\ (StoreReturned("UpdateFileset") /\ csRet.err = "nil") =>
       /\ upd.total = total
       /\ IF pre.total # NoID
          THEN upd.x = pre.total
          ELSE /\ upd.x \notin pre.live
               /\ ContentOf(upd.x) = ComposeContent(ContentsOf(filesets, staging))
               /\ ContentOf(upd.x) = ComposeContent(added)
       /\ upd.y = ApplyFn(upd.fn, upd.x).y
       /\ total \notin pre.live \cup {upd.x, NoID}
       /\ filesets[total].ttl = NoTTL
       /\ filesets[total].live
       /\ ContentOf(total) = ContentOf(upd.y)
       /\ ~filesets[upd.x].live
  /\ (/\ StoreReturned("GetFileset") /\ storeImpl = "mem" /\ csRet.err = "nil"
      /\ pre.total # NoID /\ pre.total = upd.total) =>
       (csRet.kind = "clone" /\ ContentOf(csRet.id) = ContentOf(upd.y))

C21_Witness ==
  /\ StoreReturned("GetFileset") /\ storeImpl = "mem" /\ csRet.err = "nil"
  /\ pre.total # NoID /\ pre.total = upd.total
  /\ upd.fn = "keep" /\ upd.x \notin InputIDs
  /\ ContentOf(csRet.id) = F1

\* C22 (as claimed): when AddFileset or UpdateFileset of the in-memory store
\* returns an error, the commit's staging list and finished total are what
\* they were before the call.
C22_MemUnchangedOnError ==
  (/\ storeImpl = "mem"
   /\ StoreReturned("AddFileset") \/ StoreReturned("UpdateFileset")
   /\ csRet.err # "nil") =>
     (staging = pre.staging /\ total = pre.total)

\* ------------------------------------------- writer properties, continued
\* C23: for a producer that makes finitely many Write calls and then one
\* Close, and a PutObject that terminates, every Write returns, Close
\* returns and the goroutine ends, also when PutObject fails with written
\* data still in the pipe.
C23_WriterTerminates ==
  /\ (wpc = "write") ~> (wpc = "open")
  /\ <>[](wpc = "closed" /\ upc = "exit" /\ closeRet # "none")

C23_Witness ==
  /\ wpc = "closed" /\ upc = "exit"
  /\ closeRet = "upload" /\ writeRet = "upload"
  /\ nwrites = MaxWrites /\ Len(recvd) < nwrites

====
